---- MODULE Spec2Model ----
(***************************************************************************)
(* Model of schemas.py: the five pydantic (v1, Config.orm_mode) schema     *)
(* classes TokenData, Token, UserBase, UserCreate and User, with the       *)
(* construction from a field mapping, the object mapping (from_orm) and   *)
(* the serialization (dict) that the declarations give them.               *)
(*                                                                         *)
(* Values are tagged records: a Python str is a sequence of one-character  *)
(* strings, an int is a number, None is None.  A dict (or the attributes   *)
(* of an object) is a function from key names to values.                   *)
(***************************************************************************)
EXTENDS Integers, Sequences, FiniteSets, TLC

VARIABLES pc, shape, mode, src, obj, exc, errors, out, obj2

vars == <<pc, shape, mode, src, obj, exc, errors, out, obj2>>

(* ------------------------------ values -------------------------------- *)

StrV(s) == [t |-> "str", s |-> s, n |-> 0]
IntV(i) == [t |-> "int", s |-> <<>>, n |-> i]
NoneV == [t |-> "none", s |-> <<>>, n |-> 0]
\* marks a key that the input mapping does not have (enumeration only)
Absent == [t |-> "absent", s |-> <<>>, n |-> 0]

\* largest integer drawn for an id
MaxId == 1

Letters == {"a", "b", "c", "n", "p", "A", "B", "C"}
DigitSeq == <<"0", "1", "2", "3", "4", "5", "6", "7", "8", "9">>
Digits == {DigitSeq[i] : i \in 1..10}
WordChars == Letters \cup Digits \cup {"_"}

ToLower(c) ==
  CASE c = "A" -> "a"
    [] c = "B" -> "b"
    [] c = "C" -> "c"
    [] OTHER -> c

Range(q) == {q[i] : i \in DOMAIN q}
Count(s, c) == Cardinality({i \in DOMAIN s : s[i] = c})
First(s, c) ==
  IF \E i \in DOMAIN s : s[i] = c
  THEN CHOOSE i \in DOMAIN s : s[i] = c /\ \A j \in 1..(i - 1) : s[j] # c
  ELSE 0
Last(s, c) ==
  IF \E i \in DOMAIN s : s[i] = c
  THEN CHOOSE i \in DOMAIN s : s[i] = c /\ \A j \in (i + 1)..Len(s) : s[j] # c
  ELSE 0

\* str.strip() on spaces
RECURSIVE strip(_)
strip(s) ==
  IF s = <<>> THEN s
  ELSE IF s[1] = " " THEN strip(Tail(s))
  ELSE IF s[Len(s)] = " " THEN strip(SubSeq(s, 1, Len(s) - 1))
  ELSE s

\* str(int) for a non-negative int
RECURSIVE IntToStr(_)
IntToStr(i) ==
  IF i < 10 THEN <<DigitSeq[i + 1]>>
  ELSE IntToStr(i \div 10) \o <<DigitSeq[(i % 10) + 1]>>

DigitVal(c) == (CHOOSE i \in 1..10 : DigitSeq[i] = c) - 1
\* int(str) for a string of decimal digits
RECURSIVE StrToInt(_)
StrToInt(s) ==
  IF s = <<>> THEN 0
  ELSE 10 * StrToInt(SubSeq(s, 1, Len(s) - 1)) + DigitVal(s[Len(s)])

(* ------------------- pydantic validators (v1) ------------------------- *)

Ok(v) == [ok |-> TRUE, val |-> v, err |-> "none"]
Err(e) == [ok |-> FALSE, val |-> NoneV, err |-> e]

\* str_validator: a str is kept, a number is converted with str()
str_validator(v) ==
  CASE v.t = "str" -> Ok(v)
    [] v.t = "int" -> Ok(StrV(IntToStr(v.n)))
    [] OTHER -> Err("type_error.str")

\* int_validator: an int is kept, anything else goes through int()
int_validator(v) ==
  CASE v.t = "int" -> Ok(v)
    [] v.t = "str" ->
         IF strip(v.s) # <<>> /\ \A i \in DOMAIN strip(v.s) : strip(v.s)[i] \in Digits
         THEN Ok(IntV(StrToInt(strip(v.s))))
         ELSE Err("type_error.integer")
    [] OTHER -> Err("type_error.integer")

\* pretty_email_regex  ([\w ]*?) *<(.*)> *  matched against the whole string
pretty_email_match(s) ==
  LET i == First(s, "<")
      j == Last(s, ">")
  IN  /\ i > 0
      /\ j > i
      /\ \A k \in 1..(i - 1) : s[k] \in WordChars \cup {" "}
      /\ \A k \in (j + 1)..Len(s) : s[k] = " "
pretty_email_addr(s) == SubSeq(s, First(s, "<") + 1, Last(s, ">") - 1)

\* a dot-atom: non-empty dot-separated atoms of allowed characters
DotAtomOk(s, allowed) ==
  /\ s # <<>>
  /\ s[1] # "."
  /\ s[Len(s)] # "."
  /\ \A i \in DOMAIN s : s[i] \in allowed \cup {"."}
  /\ \A i \in 1..(Len(s) - 1) : ~(s[i] = "." /\ s[i + 1] = ".")

\* email_validator.validate_email(email, check_deliverability=False):
\* exactly one @, a dot-atom local part, a dotted domain name
EmailSyntaxOk(e) ==
  /\ Count(e, "@") = 1
  /\ LET at == First(e, "@")
         local == SubSeq(e, 1, at - 1)
         domain == SubSeq(e, at + 1, Len(e))
     IN  /\ DotAtomOk(local, WordChars)
         /\ DotAtomOk(domain, Letters \cup Digits)
         /\ Count(domain, ".") >= 1

\* the address that validate_email parses out of the string
EmailAddr(s) == strip(IF pretty_email_match(s) THEN pretty_email_addr(s) ELSE s)

\* the returned address: local part kept, "@domain" lower-cased
EmailNormal(e) ==
  LET at == First(e, "@")
  IN  [i \in 1..Len(e) |-> IF i < at THEN e[i] ELSE ToLower(e[i])]

\* pydantic.networks.validate_email, second component
validate_email(s) ==
  IF EmailSyntaxOk(EmailAddr(s))
  THEN Ok(StrV(EmailNormal(EmailAddr(s))))
  ELSE Err("value_error.email")

\* EmailStr: str_validator, then EmailStr.validate
EmailStr_validate(v) ==
  IF str_validator(v).ok THEN validate_email(str_validator(v).val.s)
  ELSE str_validator(v)

(* ------------------------ schema declarations ------------------------- *)

\* "x: T" is a required field, "x: Optional[T] = None" an optional one
Required(n, ty) == [name |-> n, type |-> ty, required |-> TRUE, allow_none |-> FALSE]
Optional(n, ty) == [name |-> n, type |-> ty, required |-> FALSE, allow_none |-> TRUE]

Shapes == {"TokenData", "Token", "UserBase", "UserCreate", "User"}

TokenData_fields_str == <<Optional("email", "str")>>
TokenData_fields == <<Optional("email", "EmailStr")>>

Token_fields_optional == <<Required("access_token", "str"), Optional("token_type", "str")>>
Token_fields == <<Required("access_token", "str"), Required("token_type", "str")>>

UserBase_fields_nickname_required ==
  <<Required("name", "str"), Required("email", "EmailStr"), Required("nickname", "str")>>
UserBase_fields ==
  <<Required("name", "str"), Required("email", "EmailStr"), Optional("nickname", "str")>>

UserCreate_fields_optional == <<Optional("password", "str")>>
UserCreate_fields_with_id == <<Required("password", "str"), Optional("id", "int")>>
UserCreate_fields == <<Required("password", "str")>>

User_fields == <<Required("id", "int")>>

\* the class each class is derived from
Base_User_from_UserCreate(sh) ==
  CASE sh = "UserCreate" -> "UserBase"
    [] sh = "User" -> "UserCreate"
    [] OTHER -> "BaseModel"
Base(sh) ==
  CASE sh = "UserCreate" -> "UserBase"
    [] sh = "User" -> "UserBase"
    [] OTHER -> "BaseModel"

OwnFields(sh) ==
  CASE sh = "TokenData" -> TokenData_fields
    [] sh = "Token" -> Token_fields
    [] sh = "UserBase" -> UserBase_fields
    [] sh = "UserCreate" -> UserCreate_fields
    [] sh = "User" -> User_fields
    [] OTHER -> <<>>

\* the fields of a class: the inherited ones first, then its own
RECURSIVE Fields(_)
Fields(sh) ==
  IF sh = "BaseModel" THEN <<>> ELSE Fields(Base(sh)) \o OwnFields(sh)

FieldNames(sh) == {Fields(sh)[i].name : i \in DOMAIN Fields(sh)}
Field(sh, k) == CHOOSE f \in Range(Fields(sh)) : f.name = k

\* the classes that declare an inner Config
HasConfig_on_UserBase(sh) == sh \in {"User", "UserBase"}
HasConfig(sh) == sh = "User"

User_Config_off == [orm_mode |-> FALSE]
User_Config == [orm_mode |-> TRUE]

\* the effective Config: the class's own, else the inherited one
RECURSIVE Config(_)
Config(sh) ==
  IF sh = "BaseModel" THEN [orm_mode |-> FALSE]
  ELSE IF HasConfig(sh) THEN User_Config
  ELSE Config(Base(sh))

(* ------------------- construction and serialization ------------------- *)

NoObj == [k \in {} |-> NoneV]

\* ModelField.validate: None is accepted by an Optional field only
field_validate(f, v) ==
  IF v.t = "none" THEN (IF f.allow_none THEN Ok(NoneV) ELSE Err("type_error.none.not_allowed"))
  ELSE CASE f.type = "str" -> str_validator(v)
         [] f.type = "EmailStr" -> EmailStr_validate(v)
         [] f.type = "int" -> int_validator(v)

\* one field of validate_model: look the name up, default it or validate it
FieldResult(f, input) ==
  IF f.name \notin DOMAIN input
  THEN (IF f.required THEN Err("value_error.missing") ELSE Ok(NoneV))
  ELSE field_validate(f, input[f.name])

\* a validate_model that gives up at the first failing field
validate_model_first_error(sh, input) ==
  LET fs == Fields(sh)
      bad == {i \in DOMAIN fs : ~FieldResult(fs[i], input).ok}
  IN  [values |-> [k \in {fs[i].name : i \in DOMAIN fs \ bad} |->
                     FieldResult(Field(sh, k), input).val],
       errors |-> {[loc |-> fs[i].name, type |-> FieldResult(fs[i], input).err] :
                     i \in {b \in bad : \A c \in bad : b <= c}}]

\* validate_model: every declared field is looked at, keys that are not
\* fields are ignored, and the errors of all the fields are collected
validate_model(sh, input) ==
  LET fs == Fields(sh)
      bad == {i \in DOMAIN fs : ~FieldResult(fs[i], input).ok}
  IN  [values |-> [k \in {fs[i].name : i \in DOMAIN fs \ bad} |->
                     FieldResult(Field(sh, k), input).val],
       errors |-> {[loc |-> fs[i].name, type |-> FieldResult(fs[i], input).err] :
                     i \in bad}]

\* a dict() that leaves out the fields that are None
dict_exclude_none(o) == [k \in {f \in DOMAIN o : o[f] # NoneV} |-> o[k]]
\* BaseModel.dict(): every field of the object, by name
dict(o) == [k \in DOMAIN o |-> o[k]]

(* ------------------------------ inputs -------------------------------- *)

EmailStrings ==
  { <<"a", "@", "b", ".", "c">>,
    <<"a", "@", "B", ".", "c">>,
    <<"A", "@", "b", ".", "c">>,
    <<" ", "a", "@", "b", ".", "c">>,
    <<"n", " ", "<", "a", "@", "b", ".", "c", ">">>,
    <<"a", "b">>,
    <<"a", "@", "b">>,
    <<"@", "b", ".", "c">>,
    <<>> }

EmailSamples == {Absent, NoneV, IntV(1)} \cup {StrV(s) : s \in EmailStrings}
NameSamples == {Absent, NoneV, IntV(1), StrV(<<"n">>), StrV(<<>>)}
NicknameSamples == {Absent, NoneV, IntV(0), StrV(<<"n">>)}
PasswordSamples == {Absent, NoneV, IntV(1), StrV(<<"p">>)}
IdSamples == {Absent, NoneV, StrV(<<"1">>), StrV(<<"a">>)} \cup {IntV(i) : i \in 0..MaxId}
TokenSamples == {Absent, NoneV, IntV(1), StrV(<<"a">>), StrV(<<>>)}

RawInputs(sh) ==
  CASE sh = "TokenData" -> [email : EmailSamples, password : PasswordSamples]
    [] sh = "Token" -> [access_token : TokenSamples, token_type : TokenSamples,
                        password : {Absent, StrV(<<"p">>)}]
    [] OTHER -> [id : IdSamples, name : NameSamples, email : EmailSamples,
                 nickname : NicknameSamples, password : PasswordSamples]

\* the mapping (or the object's attributes) without the absent keys
Pack(r) == [k \in {f \in DOMAIN r : r[f] # Absent} |-> r[k]]
Inputs(sh) == {Pack(r) : r \in RawInputs(sh)}

(* ------------------------------ actions ------------------------------- *)

Init ==
  /\ pc = "idle"
  /\ shape = "none"
  /\ mode = "none"
  /\ src = NoObj
  /\ obj = NoObj
  /\ exc = "none"
  /\ errors = {}
  /\ out = NoObj
  /\ obj2 = NoObj

\* the outcome of validating input for class sh
Validated(sh, input) ==
  LET r == validate_model(sh, input)
  IN  /\ errors' = r.errors
      /\ exc' = IF r.errors = {} THEN "none" ELSE "ValidationError"
      /\ obj' = IF r.errors = {} THEN r.values ELSE NoObj
      /\ pc' = IF r.errors = {} THEN "constructed" ELSE "failed"

\* Model(**data): construction from a field mapping
Construct ==
  /\ pc = "idle"
  /\ \E sh \in Shapes : \E data \in Inputs(sh) :
       /\ shape' = sh
       /\ mode' = "dict"
       /\ src' = data
       /\ Validated(sh, data)
  /\ UNCHANGED <<out, obj2>>

\* Model.from_orm(o): construction from the attributes of an object
FromOrm ==
  /\ pc = "idle"
  /\ \E sh \in Shapes : \E o \in Inputs(sh) :
       /\ shape' = sh
       /\ mode' = "orm"
       /\ src' = o
       /\ IF Config(sh).orm_mode
          THEN Validated(sh, o)
          ELSE /\ exc' = "ConfigError"
               /\ errors' = {}
               /\ obj' = NoObj
               /\ pc' = "failed"
  /\ UNCHANGED <<out, obj2>>

\* obj.dict(): serialization of a constructed object
Dict ==
  /\ pc = "constructed"
  /\ out' = dict(obj)
  /\ pc' = "serialized"
  /\ UNCHANGED <<shape, mode, src, obj, exc, errors, obj2>>

\* Model(**obj.dict()): construction again from the serialized form
Reconstruct ==
  /\ pc = "serialized"
  /\ obj2' = IF validate_model(shape, out).errors = {}
             THEN validate_model(shape, out).values ELSE NoObj
  /\ pc' = "reconstructed"
  /\ UNCHANGED <<shape, mode, src, obj, exc, errors, out>>

\* the request is over: the objects are dropped
Discard ==
  /\ pc \in {"failed", "reconstructed"}
  /\ pc' = "idle"
  /\ shape' = "none"
  /\ mode' = "none"
  /\ src' = NoObj
  /\ obj' = NoObj
  /\ exc' = "none"
  /\ errors' = {}
  /\ out' = NoObj
  /\ obj2' = NoObj

Next == Construct \/ FromOrm \/ Dict \/ Reconstruct \/ Discard

Spec == Init /\ [][Next]_vars

TypeOK ==
  /\ pc \in {"idle", "constructed", "failed", "serialized", "reconstructed"}
  /\ exc \in {"none", "ValidationError", "ConfigError"}

(* ------------------------------ claims -------------------------------- *)

Attempted == pc # "idle"
Succeeded == pc \in {"constructed", "serialized", "reconstructed"}
Serialized == pc \in {"serialized", "reconstructed"}
UserShapes == {"UserBase", "UserCreate", "User"}

WithoutKey(d, k) == [x \in DOMAIN d \ {k} |-> d[x]]
ErrorLocs == {e.loc : e \in errors}

\* the fields of sh that input d leaves out though required, or gives malformed
FailingFields(sh, d) ==
  {f.name : f \in {g \in Range(Fields(sh)) :
                     \/ g.name \notin DOMAIN d /\ g.required
                     \/ g.name \in DOMAIN d /\ ~field_validate(g, d[g.name]).ok}}

\* a value of the declared type of field f
TypeMatches(f, v) ==
  \/ f.allow_none /\ v = NoneV
  \/ f.type = "str" /\ v.t = "str"
  \/ f.type = "int" /\ v.t = "int"
  \/ f.type = "EmailStr" /\ v.t = "str" /\ EmailSyntaxOk(EmailAddr(v.s))

\* an input made of fields of sh only, each of its declared type
Matches(sh, d) ==
  /\ DOMAIN d \subseteq FieldNames(sh)
  /\ \A f \in Range(Fields(sh)) :
       IF f.name \in DOMAIN d THEN TypeMatches(f, d[f.name]) ELSE ~f.required

\* the input with its omitted fields as None
Completed(sh, d) == [k \in FieldNames(sh) |-> IF k \in DOMAIN d THEN d[k] ELSE NoneV]

\* the same, with every email address in the form validation returns it
NormalForm(sh, d) ==
  [k \in FieldNames(sh) |->
     IF k \notin DOMAIN d THEN NoneV
     ELSE IF Field(sh, k).type = "EmailStr" /\ d[k].t = "str"
          THEN StrV(EmailNormal(EmailAddr(d[k].s)))
          ELSE d[k]]

\* C1: a serialized User has exactly the keys id, name, email and nickname,
\* whether the source is a mapping or an object and whether or not it carries
\* a password, and it is what the source without its password serializes to.
C1_UserNeverSerializesPassword ==
  (shape = "User" /\ Serialized) =>
     /\ DOMAIN out = {"id", "name", "email", "nickname"}
     /\ "password" \notin DOMAIN obj
     /\ out = dict(validate_model("User", WithoutKey(src, "password")).values)

C1_Witness ==
  /\ shape = "User"
  /\ mode = "orm"
  /\ pc = "serialized"
  /\ "password" \in DOMAIN src
  /\ src.password = StrV(<<"p">>)

\* C2: a UserCreate input without a password fails with a validation failure
\* that names password and yields no object, whatever name, email and
\* nickname are; with a string password and the other fields valid,
\* construction succeeds.
C2_UserCreateNeedsPassword ==
  (shape = "UserCreate" /\ Attempted) =>
     /\ "password" \notin DOMAIN src =>
          /\ pc = "failed"
          /\ obj = NoObj
          /\ mode = "dict" =>
               /\ exc = "ValidationError"
               /\ [loc |-> "password", type |-> "value_error.missing"] \in errors
     /\ ( /\ mode = "dict"
          /\ "password" \in DOMAIN src
          /\ src.password.t = "str"
          /\ FailingFields("UserBase", src) = {} ) =>
          /\ Succeeded
          /\ obj.password = src.password

C2_Witness ==
  /\ shape = "UserCreate"
  /\ mode = "dict"
  /\ pc = "failed"
  /\ "password" \notin DOMAIN src
  /\ FailingFields("UserBase", src) = {}
  /\ ErrorLocs = {"password"}

NoAt(v) == v.t = "str" /\ Count(v.s, "@") = 0

\* C3: in TokenData, UserBase, UserCreate and User, an email that is a string
\* without "@" makes construction fail, whatever the other fields are, and a
\* validation failure then names email.
C3_EmailWithoutAtFails ==
  ( /\ Attempted
    /\ shape \in {"TokenData", "UserBase", "UserCreate", "User"}
    /\ "email" \in DOMAIN src
    /\ NoAt(src.email) ) =>
     /\ pc = "failed"
     /\ obj = NoObj
     /\ (mode = "dict" \/ shape = "User") =>
          /\ exc = "ValidationError"
          /\ [loc |-> "email", type |-> "value_error.email"] \in errors

C3_Witness ==
  /\ shape = "TokenData"
  /\ mode = "dict"
  /\ pc = "failed"
  /\ "email" \in DOMAIN src
  /\ src.email = StrV(<<"a", "b">>)

\* C4 as stated: for every input of the declared field types, construction
\* succeeds, the serialized object is the input itself (omitted optional
\* fields as None), and constructing again gives an equal object.
C4_RoundTripSameRepresentation ==
  (Attempted /\ mode = "dict" /\ Matches(shape, src)) =>
     /\ Succeeded
     /\ Serialized => out = Completed(shape, src)
     /\ pc = "reconstructed" => obj2 = obj

\* C4 amended: for every input of the declared field types, construction
\* succeeds, the serialized object is the input with omitted optional fields
\* as None and the email in its validated form (address taken out of a
\* "name <address>" string, surrounding spaces removed, domain in lower
\* case), and constructing again from it gives an equal object.
C4_RoundTripNormalForm ==
  (Attempted /\ mode = "dict" /\ Matches(shape, src)) =>
     /\ Succeeded
     /\ Serialized => out = NormalForm(shape, src)
     /\ pc = "reconstructed" => (obj2 = obj /\ dict(obj2) = out)

C4_Witness ==
  /\ shape = "UserBase"
  /\ mode = "dict"
  /\ pc = "reconstructed"
  /\ Matches(shape, src)
  /\ "nickname" \notin DOMAIN src
  /\ src.email = StrV(<<"a", "@", "B", ".", "c">>)
  /\ out.email = StrV(<<"a", "@", "b", ".", "c">>)

\* an object with id, name and email attributes of valid types
ValidAttrs(o) ==
  /\ {"id", "name", "email"} \subseteq DOMAIN o
  /\ o.id.t = "int"
  /\ o.name.t = "str"
  /\ o.email.t = "str" /\ EmailSyntaxOk(EmailAddr(o.email.s))
  /\ "nickname" \in DOMAIN o => o.nickname.t \in {"str", "none"}

C6_IdNeverClientSupplied ==
  /\ \A sh \in Shapes : "id" \in FieldNames(sh) <=> sh = "User"
  /\ (shape = "UserCreate" /\ Attempted) =>
       /\ "id" \notin DOMAIN obj
       /\ "id" \notin DOMAIN out
       /\ "id" \notin DOMAIN obj2
       /\ Serialized => out = dict(validate_model("UserCreate", WithoutKey(src, "id")).values)
  /\ (shape = "User" /\ Attempted /\ "id" \notin DOMAIN src) =>
       /\ pc = "failed"
       /\ obj = NoObj
       /\ [loc |-> "id", type |-> "value_error.missing"] \in errors
  /\ (shape = "User" /\ Succeeded) => obj.id.t = "int"

C6_Witness ==
  /\ shape = "UserCreate"
  /\ mode = "dict"
  /\ pc = "serialized"
  /\ "id" \in DOMAIN src
  /\ src.id = IntV(1)

\* C7: when validation runs on an input with missing or malformed fields,
\* the one outcome is a ValidationError whose entries name exactly the
\* failing fields, and there is no object, no serialization and no second
\* construction; a failure of validation has no other form.
C7_SingleValidationError ==
  (Attempted /\ (mode = "dict" \/ Config(shape).orm_mode)) =>
     /\ FailingFields(shape, src) # {} =>
          /\ pc = "failed"
          /\ exc = "ValidationError"
          /\ ErrorLocs = FailingFields(shape, src)
          /\ Cardinality(errors) = Cardinality(ErrorLocs)
          /\ obj = NoObj
          /\ out = NoObj
          /\ obj2 = NoObj
     /\ pc = "failed" =>
          /\ exc = "ValidationError"
          /\ FailingFields(shape, src) # {}
     /\ exc = "ValidationError" <=> pc = "failed"

C7_Witness ==
  /\ shape = "UserCreate"
  /\ mode = "dict"
  /\ pc = "failed"
  /\ ErrorLocs = {"name", "email", "password"}
  /\ "name" \notin DOMAIN src
  /\ "email" \in DOMAIN src

\* C8: in UserBase, UserCreate and User an input without name, without
\* email or with email None fails, and one without nickname whose other
\* fields are valid gives an object with nickname None; a TokenData input
\* without email gives an object with email None.
C8_FieldPresence ==
  /\ (shape \in UserShapes /\ Attempted) =>
       /\ ("name" \notin DOMAIN src \/ "email" \notin DOMAIN src \/ src.email = NoneV) =>
            (pc = "failed" /\ obj = NoObj)
       /\ ( /\ "nickname" \notin DOMAIN src
            /\ (mode = "dict" \/ Config(shape).orm_mode)
            /\ FailingFields(shape, src) \subseteq {"nickname"} ) =>
            (Succeeded /\ obj.nickname = NoneV)
  /\ (shape = "TokenData" /\ mode = "dict" /\ "email" \notin DOMAIN src) =>
       (Succeeded /\ obj.email = NoneV)

C8_Witness ==
  /\ shape = "UserBase"
  /\ mode = "dict"
  /\ pc = "constructed"
  /\ "nickname" \notin DOMAIN src
  /\ obj.nickname = NoneV

Supplied(d, k, types) == k \in DOMAIN d /\ d[k].t \in types

C10_OrmModeOnUserOnly ==
  /\ \A sh \in Shapes : Config(sh).orm_mode <=> sh = "User"
  /\ (mode = "orm" /\ Attempted /\ shape # "User") =>
       /\ pc = "failed"
       /\ exc = "ConfigError"
       /\ obj = NoObj
  /\ (mode = "orm" /\ Attempted /\ shape = "User") =>
       /\ exc # "ConfigError"
       /\ FailingFields("User", src) = {} => Succeeded

C10_Witness ==
  /\ shape = "UserCreate"
  /\ mode = "orm"
  /\ pc = "failed"
  /\ exc = "ConfigError"
  /\ FailingFields("UserCreate", src) = {}

====
